---- MODULE Spec2Model ----
(***************************************************************************)
(* Model of app_bfs.py: the parser of the edge text                        *)
(* (parsear_entrada_a_grafo), the breadth-first search                     *)
(* (bfs_grados_de_separacion) and the part of the Streamlit button handler *)
(* that consumes its result.                                               *)
(*                                                                         *)
(* A text is a sequence of one-character strings; a node is a token, i.e.  *)
(* a non-empty sequence of word characters; the graph is a function from   *)
(* its keys to their neighbour lists (sequences of nodes).  Python's None  *)
(* is the empty tuple and a non-None value v is the one-element tuple <<v>>.*)
(***************************************************************************)
EXTENDS Integers, Sequences, FiniteSets, TLC

\* ------------------------------------------------------------------ bounds
\* The largest number of lines of a text typed by the user (the default
\* text, with its eleven lines, is an input besides those).
MaxLineas == 4

\* ------------------------------------------------------------ Python values
None == <<>>
Some(v) == <<v>>

NL == "\n"

\* str.strip() removes these (the whitespace of the model's alphabet).
Espacios == {" ", NL, "\t"}

\* The characters [\w] matches, among those of the model's alphabet.
CaracteresPalabra ==
  {"A", "B", "C", "D", "E", "F", "G", "H", "I", "J", "Z", "_", "1"}

MSG_NO_EXISTE ==
  "Error: El nodo de inicio o destino no existe en el grafo definido."

MSG_SIN_CONEXION ==
  "No hay conexión posible entre los dos nodos seleccionados."

\* ------------------------------------------------------------- str methods
RECURSIVE lstrip(_)
lstrip(s) ==
  IF s # <<>> /\ Head(s) \in Espacios THEN lstrip(Tail(s)) ELSE s

RECURSIVE rstrip(_)
rstrip(s) ==
  IF s # <<>> /\ s[Len(s)] \in Espacios
    THEN rstrip(SubSeq(s, 1, Len(s) - 1))
    ELSE s

strip(s) == rstrip(lstrip(s))

\* s.split(sep): the pieces of s between the occurrences of sep; always at
\* least one piece ("".split('\n') is ['']).
RECURSIVE split(_, _)
split(s, sep) ==
  IF \A i \in 1..Len(s) : s[i] # sep
    THEN <<s>>
    ELSE LET i == CHOOSE k \in 1..Len(s) :
                    s[k] = sep /\ \A j \in 1..(k - 1) : s[j] # sep
         IN <<SubSeq(s, 1, i - 1)>> \o split(SubSeq(s, i + 1, Len(s)), sep)

\* re.findall(r'[\w]+', s): the maximal runs of word characters, in order.
RECURSIVE findall(_)
findall(s) ==
  IF s = <<>> THEN <<>>
  ELSE IF Head(s) \notin CaracteresPalabra THEN findall(Tail(s))
  ELSE LET fin == CHOOSE k \in 1..Len(s) :
                    /\ \A j \in 1..k : s[j] \in CaracteresPalabra
                    /\ (k = Len(s) \/ s[k + 1] \notin CaracteresPalabra)
       IN <<SubSeq(s, 1, fin)>> \o findall(SubSeq(s, fin + 1, Len(s)))

\* ---------------------------------------------------------------- parser
Contiene(lista, x) == \E i \in 1..Len(lista) : lista[i] = x

GrafoVacio == [n \in {} |-> <<>>]

\* if nodo not in grafo: grafo[nodo] = []
AsegurarClave(g, nodo) ==
  IF nodo \in DOMAIN g THEN g
  ELSE [n \in DOMAIN g \cup {nodo} |-> IF n = nodo THEN <<>> ELSE g[n]]

\* if b not in grafo[a]: grafo[a].append(b)
AgregarVecino(g, a, b) ==
  IF Contiene(g[a], b) THEN g ELSE [g EXCEPT ![a] = Append(@, b)]

\* The mutant of AgregarArista: the reverse direction is forgotten.
AgregarAristaDirigida(g, nodo1, nodo2) ==
  AgregarVecino(AsegurarClave(AsegurarClave(g, nodo1), nodo2), nodo1, nodo2)

\* The body of "if len(nodos) == 2".
AgregarArista(g, nodo1, nodo2) ==
  LET g1 == AsegurarClave(g, nodo1)
      g2 == AsegurarClave(g1, nodo2)
      g3 == AgregarVecino(g2, nodo1, nodo2)
  IN AgregarVecino(g3, nodo2, nodo1)

\* The mutant of EsArista: a line with more than two tokens counts too.
EsAristaAlMenosDos(nodos) == Len(nodos) >= 2

\* len(nodos) == 2
EsArista(nodos) == Len(nodos) = 2

\* One iteration of "for linea in lineas".
ProcesarLinea(g, linea) ==
  LET nodos == findall(strip(linea))
  IN IF EsArista(nodos) THEN AgregarArista(g, nodos[1], nodos[2]) ELSE g

\* The whole loop over the lines that are left.
RECURSIVE ProcesarLineas(_, _)
ProcesarLineas(g, ls) ==
  IF ls = <<>> THEN g
  ELSE ProcesarLineas(ProcesarLinea(g, Head(ls)), Tail(ls))

\* parsear_entrada_a_grafo as a function of its argument.
parsear_entrada_a_grafo(texto_conexiones) ==
  ProcesarLineas(GrafoVacio, split(strip(texto_conexiones), NL))

\* ------------------------------------------------------------------- search
\* grafo.get(nodo, [])
Vecinos(g, nodo) == IF nodo \in DOMAIN g THEN g[nodo] ELSE <<>>

\* The mutant of NodoDesconocido: only inicio is looked up.
SoloInicioDesconocido(g, ini, des) == ini \notin DOMAIN g

\* inicio not in grafo or destino not in grafo
NodoDesconocido(g, ini, des) == ini \notin DOMAIN g \/ des \notin DOMAIN g

Entrada(nodo, camino) == [nodo |-> nodo, camino |-> camino]

\* The mutant of Expandir: visitados.add(vecino) is forgotten.
RECURSIVE ExpandirSinMarcar(_, _, _, _)
ExpandirSinMarcar(vecinos, q, vis, camino_actual) ==
  IF vecinos = <<>> THEN [cola |-> q, visitados |-> vis]
  ELSE LET vecino == Head(vecinos)
       IN IF vecino \notin vis
            THEN ExpandirSinMarcar(Tail(vecinos),
                   Append(q, Entrada(vecino, Append(camino_actual, vecino))),
                   vis, camino_actual)
            ELSE ExpandirSinMarcar(Tail(vecinos), q, vis, camino_actual)

\* The mutant of Expandir: the path so far is dropped from the new entry.
RECURSIVE ExpandirSinCamino(_, _, _, _)
ExpandirSinCamino(vecinos, q, vis, camino_actual) ==
  IF vecinos = <<>> THEN [cola |-> q, visitados |-> vis]
  ELSE LET vecino == Head(vecinos)
       IN IF vecino \notin vis
            THEN ExpandirSinCamino(Tail(vecinos),
                   Append(q, Entrada(vecino, <<vecino>>)),
                   vis \cup {vecino}, camino_actual)
            ELSE ExpandirSinCamino(Tail(vecinos), q, vis, camino_actual)

\* for vecino in grafo.get(nodo_actual, []): if vecino not in visitados:
\*   visitados.add(vecino); cola.append((vecino, camino_actual + [vecino]))
RECURSIVE Expandir(_, _, _, _)
Expandir(vecinos, q, vis, camino_actual) ==
  IF vecinos = <<>> THEN [cola |-> q, visitados |-> vis]
  ELSE LET vecino == Head(vecinos)
       IN IF vecino \notin vis
            THEN Expandir(Tail(vecinos),
                   Append(q, Entrada(vecino, Append(camino_actual, vecino))),
                   vis \cup {vecino}, camino_actual)
            ELSE Expandir(Tail(vecinos), q, vis, camino_actual)

\* The mutant of Iteracion: a depth-first search (the last entry is taken,
\* and a node is marked when it is taken rather than when it is added).
IteracionDFS(g, q, vis, des) ==
  LET actual == q[Len(q)]
      resto == SubSeq(q, 1, Len(q) - 1)
  IN IF actual.nodo = des
       THEN [cola |-> resto, visitados |-> vis, nodo_actual |-> actual.nodo,
             retorno |-> Some(actual.camino)]
       ELSE LET e == ExpandirSinMarcar(Vecinos(g, actual.nodo), resto,
                                       vis \cup {actual.nodo}, actual.camino)
            IN [cola |-> e.cola, visitados |-> e.visitados,
                nodo_actual |-> actual.nodo, retorno |-> None]

\* The mutant of Iteracion: the comparison with destino is made when a
\* neighbour is found, not when a node is taken from the queue.
IteracionCompararAlEncolar(g, q, vis, des) ==
  LET actual == Head(q)
      e == Expandir(Vecinos(g, actual.nodo), Tail(q), vis, actual.camino)
      nuevas == SubSeq(e.cola, Len(q), Len(e.cola))
      hallada == {i \in 1..Len(nuevas) : nuevas[i].nodo = des}
  IN [cola |-> e.cola, visitados |-> e.visitados, nodo_actual |-> actual.nodo,
      retorno |-> IF hallada = {} THEN None
                  ELSE Some(nuevas[CHOOSE i \in hallada : TRUE].camino)]

\* One iteration of "while cola" (q is not empty): popleft, the comparison
\* with destino, and otherwise the loop over the neighbours.
Iteracion(g, q, vis, des) ==
  LET actual == Head(q)
      resto == Tail(q)
  IN IF actual.nodo = des
       THEN [cola |-> resto, visitados |-> vis, nodo_actual |-> actual.nodo,
             retorno |-> Some(actual.camino)]
       ELSE LET e == Expandir(Vecinos(g, actual.nodo), resto, vis,
                              actual.camino)
            IN [cola |-> e.cola, visitados |-> e.visitados,
                nodo_actual |-> actual.nodo, retorno |-> None]

\* The mutant of RetornoCamino: the error slot is filled as well.
RetornoCaminoConMensaje(camino) ==
  [ruta |-> Some(camino), error_msg |-> Some(MSG_SIN_CONEXION)]

\* return camino_actual, None
RetornoCamino(camino) == [ruta |-> Some(camino), error_msg |-> None]

\* return None, "Error: El nodo de inicio o destino no existe ..."
RetornoNoExiste == [ruta |-> None, error_msg |-> Some(MSG_NO_EXISTE)]

\* The mutant of RetornoSinConexion: the message of the other failure.
RetornoSinConexionOtroMensaje == RetornoNoExiste

\* return None, "No hay conexión posible ..."
RetornoSinConexion == [ruta |-> None, error_msg |-> Some(MSG_SIN_CONEXION)]

\* "if ruta:" a path that is neither None nor the empty list.
Verdadero(r) == r # None /\ r[1] # <<>>

\* The mutant of Grados: the nodes are counted, not the hops.
GradosContandoNodos(r) == Len(r)

\* grados_separacion = len(ruta) - 1
Grados(r) == Len(r) - 1

\* ------------------------------------------------------------------ inputs
\* The lines an input text is made of: edges of the nodes A, B, C and D
\* (one of them twice, reversed and with punctuation; one with padding;
\* a self-loop) and lines with no, one and three tokens.
LineasCandidatas ==
  { <<"A", " ", "B">>,
    <<"B", ",", "A">>,
    <<"B", " ", "C">>,
    <<" ", "C", " ", " ", "D", " ">>,
    <<"D", " ", "A">>,
    <<"A", " ", "C">>,
    <<"D", " ", "D">>,
    <<>>,
    <<"-", "B">>,
    <<"A", " ", "B", " ", "C">> }

RECURSIVE Unir(_)
Unir(ls) ==
  IF ls = <<>> THEN <<>>
  ELSE IF Len(ls) = 1 THEN ls[1]
  ELSE ls[1] \o <<NL>> \o Unir(Tail(ls))

Textos ==
  { Unir(ls) : ls \in UNION { [1..n -> LineasCandidatas] : n \in 1..MaxLineas } }

\* A node that no candidate line mentions.
NodoAjeno == <<"Z">>

\* DEFAULT_CONNECTIONS
DEFAULT_CONNECTIONS ==
  <<NL>> \o <<"A", " ", "B", NL>>
         \o <<"B", " ", "C", NL>>
         \o <<"C", " ", "D", NL>>
         \o <<"D", " ", "E", NL>>
         \o <<"E", " ", "F", NL>>
         \o <<"A", " ", "G", NL>>
         \o <<"G", " ", "H", NL>>
         \o <<"H", " ", "I", NL>>
         \o <<"I", " ", "J", NL>>
         \o <<"J", " ", "F", NL>>
         \o <<"C", " ", "G", NL>>

\* ------------------------------------------------------------------- state
VARIABLES
  pc,                \* the place the script has reached
  texto_conexiones,  \* the argument of parsear_entrada_a_grafo
  lineas,            \* the lines the for loop has not processed yet
  grafo,             \* the adjacency mapping
  inicio, destino,   \* the arguments of bfs_grados_de_separacion
  cola, visitados,   \* its queue and its visited set
  ruta, error_msg,   \* the pair it returns
  grados_separacion, \* len(ruta) - 1, as the button handler computes it
  encolados,         \* history: the nodes ever put in cola, in order
  extraidos          \* history: the nodes ever taken from cola, in order

vars ==
  << pc, texto_conexiones, lineas, grafo, inicio, destino, cola, visitados,
     ruta, error_msg, grados_separacion, encolados, extraidos >>

InitCon(texto) ==
  /\ pc = "parsear"
  /\ texto_conexiones = texto
  /\ lineas = <<>>
  /\ grafo = GrafoVacio
  /\ inicio = None
  /\ destino = None
  /\ cola = <<>>
  /\ visitados = {}
  /\ ruta = None
  /\ error_msg = None
  /\ grados_separacion = None
  /\ encolados = <<>>
  /\ extraidos = <<>>

\* The text area holds the default text or a text the user has typed.
Init == \E texto \in Textos \cup {DEFAULT_CONNECTIONS} : InitCon(texto)

\* grafo = {}; lineas = texto_conexiones.strip().split('\n')
Parsear ==
  /\ pc = "parsear"
  /\ grafo' = GrafoVacio
  /\ lineas' = split(strip(texto_conexiones), NL)
  /\ pc' = "for"
  /\ UNCHANGED << texto_conexiones, inicio, destino, cola, visitados, ruta,
                  error_msg, grados_separacion, encolados, extraidos >>

\* One iteration of the for loop.
ForLinea ==
  /\ pc = "for"
  /\ lineas # <<>>
  /\ grafo' = ProcesarLinea(grafo, Head(lineas))
  /\ lineas' = Tail(lineas)
  /\ UNCHANGED << pc, texto_conexiones, inicio, destino, cola, visitados,
                  ruta, error_msg, grados_separacion, encolados, extraidos >>

\* return grafo: the loop is over and the function's locals are gone.
RetornarGrafo ==
  /\ pc = "for"
  /\ lineas = <<>>
  /\ texto_conexiones' = <<>>
  /\ pc' = "seleccionar"
  /\ UNCHANGED << lineas, grafo, inicio, destino, cola, visitados, ruta,
                  error_msg, grados_separacion, encolados, extraidos >>

\* The caller chooses the two nodes and calls the search: any key of the
\* graph, or a node the graph does not have.
Seleccionar ==
  /\ pc = "seleccionar"
  /\ \E ini \in DOMAIN grafo \cup {NodoAjeno} :
       \E des \in DOMAIN grafo \cup {NodoAjeno} :
         /\ inicio' = ini
         /\ destino' = des
  /\ pc' = "bfs"
  /\ UNCHANGED << texto_conexiones, lineas, grafo, cola, visitados, ruta,
                  error_msg, grados_separacion, encolados, extraidos >>

\* The head of bfs_grados_de_separacion: the lookup of the two nodes, and
\* then either the failure or the first queue and visited set.
BfsEntrada ==
  /\ pc = "bfs"
  /\ IF NodoDesconocido(grafo, inicio, destino)
       THEN /\ ruta' = RetornoNoExiste.ruta
            /\ error_msg' = RetornoNoExiste.error_msg
            /\ pc' = "retorno"
            /\ UNCHANGED << cola, visitados, encolados >>
       ELSE /\ cola' = << Entrada(inicio, <<inicio>>) >>
            /\ visitados' = {inicio}
            /\ encolados' = <<inicio>>
            /\ pc' = "while"
            /\ UNCHANGED << ruta, error_msg >>
  /\ UNCHANGED << texto_conexiones, lineas, grafo, inicio, destino,
                  grados_separacion, extraidos >>

\* One iteration of "while cola".
BfsIteracion ==
  /\ pc = "while"
  /\ cola # <<>>
  /\ LET it == Iteracion(grafo, cola, visitados, destino)
         nuevas == SubSeq(it.cola, Len(cola), Len(it.cola))
     IN /\ cola' = it.cola
        /\ visitados' = it.visitados
        /\ extraidos' = Append(extraidos, it.nodo_actual)
        /\ encolados' = encolados \o [i \in 1..Len(nuevas) |-> nuevas[i].nodo]
        /\ IF it.retorno # None
             THEN /\ ruta' = RetornoCamino(it.retorno[1]).ruta
                  /\ error_msg' = RetornoCamino(it.retorno[1]).error_msg
                  /\ pc' = "retorno"
             ELSE UNCHANGED << ruta, error_msg, pc >>
  /\ UNCHANGED << texto_conexiones, lineas, grafo, inicio, destino,
                  grados_separacion >>

\* The queue is empty: the loop ends and the function returns the failure.
BfsAgotada ==
  /\ pc = "while"
  /\ cola = <<>>
  /\ ruta' = RetornoSinConexion.ruta
  /\ error_msg' = RetornoSinConexion.error_msg
  /\ pc' = "retorno"
  /\ UNCHANGED << texto_conexiones, lineas, grafo, inicio, destino, cola,
                  visitados, grados_separacion, encolados, extraidos >>

\* The button handler: "if ruta:" computes the degrees of separation.
Mostrar ==
  /\ pc = "retorno"
  /\ grados_separacion' =
       IF Verdadero(ruta) THEN Some(Grados(ruta[1])) ELSE None
  /\ pc' = "fin"
  /\ UNCHANGED << texto_conexiones, lineas, grafo, inicio, destino, cola,
                  visitados, ruta, error_msg, encolados, extraidos >>

Next ==
  \/ Parsear
  \/ ForLinea
  \/ RetornarGrafo
  \/ Seleccionar
  \/ BfsEntrada
  \/ BfsIteracion
  \/ BfsAgotada
  \/ Mostrar

\* The script run on any of the input texts.
Spec == Init /\ [][Next]_vars

\* ------------------------------------------------- graph-theoretic notions
Rango(lista) == {lista[i] : i \in 1..Len(lista)}

\* S and the nodes one edge away from a node of S.
UnPasoMas(g, S) ==
  S \cup UNION {IF m \in DOMAIN g THEN Rango(g[m]) ELSE {} : m \in S}

\* The nodes at most k edges away from s.
RECURSIVE Dentro(_, _, _)
Dentro(g, s, k) == IF k = 0 THEN {s} ELSE UnPasoMas(g, Dentro(g, s, k - 1))

\* The nodes reachable from s.
Alcanzables(g, s) == Dentro(g, s, Cardinality(DOMAIN g))

\* The number of edges of a shortest path from s to t (t reachable from s).
Distancia(g, s, t) ==
  CHOOSE k \in 0..Cardinality(DOMAIN g) :
    /\ t \in Dentro(g, s, k)
    /\ \A j \in 0..(k - 1) : t \notin Dentro(g, s, j)

\* p is a path of g from s to t: no node twice, consecutive nodes adjacent.
EsCamino(g, p, s, t) ==
  /\ p # <<>>
  /\ p[1] = s
  /\ p[Len(p)] = t
  /\ \A i, j \in 1..Len(p) : i # j => p[i] # p[j]
  /\ \A i \in 1..(Len(p) - 1) :
       /\ p[i] \in DOMAIN g
       /\ \E k \in 1..Len(g[p[i]]) : g[p[i]][k] = p[i + 1]

\* bfs_grados_de_separacion has returned.
Retornado == pc \in {"retorno", "fin"}

AmbosClaves == inicio \in DOMAIN grafo /\ destino \in DOMAIN grafo

NodoA == <<"A">>
NodoF == <<"F">>

\* The graph of the default edge list.
GrafoDefault == parsear_entrada_a_grafo(DEFAULT_CONNECTIONS)

\* The search from A to F on the default graph has returned.
RetornadoDefaultAF ==
  /\ Retornado
  /\ inicio = NodoA
  /\ destino = NodoF
  /\ grafo = GrafoDefault

\* ------------------------------------------------------------------ claims

\* C1: when destino is reachable from inicio, the search returns a path of
\* the graph from inicio to destino whose number of edges is the distance
\* between them: no path with fewer edges exists.
C1_CaminoMasCorto ==
  (Retornado /\ AmbosClaves /\ destino \in Alcanzables(grafo, inicio)) =>
    /\ ruta # None
    /\ EsCamino(grafo, ruta[1], inicio, destino)
    /\ Len(ruta[1]) - 1 = Distancia(grafo, inicio, destino)

\* A path of two edges was returned where a second route of two edges
\* exists (a node off the path is adjacent to both ends).
C1_Witness ==
  /\ pc = "retorno"
  /\ ruta # None
  /\ Len(ruta[1]) = 3
  /\ \E n \in DOMAIN grafo \ Rango(ruta[1]) :
       n \in Rango(grafo[inicio]) /\ n \in Rango(grafo[destino])

\* C2: a returned path starts at inicio, ends at destino, has no node twice
\* and every two consecutive nodes of it are adjacent in the graph.
C2_CaminoBienFormado ==
  (Retornado /\ ruta # None) => EsCamino(grafo, ruta[1], inicio, destino)

\* A path of four nodes was returned.
C2_Witness == pc = "retorno" /\ ruta # None /\ Len(ruta[1]) = 4

\* C3: the search returns either a non-empty path and no error, or no path
\* and an error message, whatever inicio and destino are.
C3_ExactamenteUno ==
  Retornado =>
    \/ ruta # None /\ ruta[1] # <<>> /\ error_msg = None
    \/ ruta = None /\ error_msg # None

\* The search has returned a path, and its error slot is None.
C3_Witness ==
  /\ pc = "retorno"
  /\ ruta # None
  /\ Len(ruta[1]) >= 2
  /\ error_msg = None

\* C4: with inicio or destino not a key, the search never enters its loop
\* and returns the unknown-node failure, with nothing ever put in the
\* queue or in the visited set and nothing taken from the queue.
C4_NodoDesconocido ==
  (pc \in {"while", "retorno", "fin"} /\ ~AmbosClaves) =>
    /\ pc # "while"
    /\ ruta = None
    /\ error_msg = Some(MSG_NO_EXISTE)
    /\ cola = <<>>
    /\ visitados = {}
    /\ encolados = <<>>
    /\ extraidos = <<>>

\* The search has returned for a known inicio and an unknown destino.
C4_Witness ==
  /\ pc = "retorno"
  /\ inicio \in DOMAIN grafo
  /\ destino \notin DOMAIN grafo

\* C5: with both nodes keys and destino not reachable from inicio, the
\* search returns the no-path failure, whose message is not that of the
\* unknown-node failure, with the queue empty and exactly the nodes
\* reachable from inicio taken from it.
C5_SinConexion ==
  (Retornado /\ AmbosClaves /\ destino \notin Alcanzables(grafo, inicio)) =>
    /\ ruta = None
    /\ error_msg = Some(MSG_SIN_CONEXION)
    /\ error_msg # Some(MSG_NO_EXISTE)
    /\ cola = <<>>
    /\ Rango(extraidos) = Alcanzables(grafo, inicio)

\* The search has failed between two components, the one of inicio with
\* three nodes or more.
C5_Witness ==
  /\ pc = "retorno"
  /\ AmbosClaves
  /\ destino \notin Alcanzables(grafo, inicio)
  /\ Cardinality(Alcanzables(grafo, inicio)) >= 3

\* C6: for a key A the search from A to A returns the path [A] and no
\* error at the first dequeue, with no neighbour put in the queue.
C6_MismoNodo ==
  (Retornado /\ AmbosClaves /\ inicio = destino) =>
    /\ ruta = Some(<<inicio>>)
    /\ error_msg = None
    /\ extraidos = <<inicio>>
    /\ encolados = <<inicio>>
    /\ visitados = {inicio}

\* The search from a node to itself has returned, the node having a
\* self-loop and no other neighbour.
C6_Witness ==
  /\ pc = "retorno"
  /\ AmbosClaves
  /\ inicio = destino
  /\ grafo[inicio] = <<inicio>>

\* C7: at every point between two lines and after the last one, every
\* neighbour of a key is a key and has that key among its neighbours.
C7_SimetricoYCerrado ==
  \A a \in DOMAIN grafo :
    \A i \in 1..Len(grafo[a]) :
      /\ grafo[a][i] \in DOMAIN grafo
      /\ \E j \in 1..Len(grafo[grafo[a][i]]) : grafo[grafo[a][i]][j] = a

\* The parser is between two lines and a node has two neighbours.
C7_Witness ==
  /\ pc = "for"
  /\ lineas # <<>>
  /\ \E a \in DOMAIN grafo : Len(grafo[a]) >= 2

\* C8 as stated: on the default graph the search from A to F returns a
\* shortest path, and that path has 6 edges.
C8_SeisAristas ==
  RetornadoDefaultAF =>
    /\ ruta # None
    /\ EsCamino(grafo, ruta[1], NodoA, NodoF)
    /\ Len(ruta[1]) - 1 = Distancia(grafo, NodoA, NodoF)
    /\ Len(ruta[1]) - 1 = 6

\* C8 as amended: on the default graph the search from A to F returns a
\* shortest path, which has 6 nodes and 5 edges, and the handler reports 5
\* degrees of separation.
C8_CincoAristas ==
  RetornadoDefaultAF =>
    /\ ruta # None
    /\ EsCamino(grafo, ruta[1], NodoA, NodoF)
    /\ Len(ruta[1]) - 1 = Distancia(grafo, NodoA, NodoF)
    /\ Len(ruta[1]) = 6
    /\ Len(ruta[1]) - 1 = 5
    /\ pc = "fin" => grados_separacion = Some(5)

\* The handler has shown the result of the search from A to F on the
\* graph of the eleven default edges.
C8_Witness ==
  /\ pc = "fin"
  /\ inicio = NodoA
  /\ destino = NodoF
  /\ grafo = GrafoDefault
  /\ Cardinality(DOMAIN grafo) = 10
  /\ grados_separacion # None

DosTokens(linea) == Len(findall(strip(linea))) = 2

\* The text without its lines that do not have exactly two tokens.
SinLineasInvalidas(texto) == Unir(SelectSeq(split(texto, NL), DosTokens))

\* C9: a line that does not have exactly two tokens leaves the graph as it
\* was, and when the loop is over the graph is the one the parser builds
\* from the text without those lines.
C9_SoloDosTokens ==
  [][ /\ (pc = "for" /\ lineas # <<>> /\ ~DosTokens(Head(lineas)))
         => grafo' = grafo
      /\ (pc = "for" /\ lineas = <<>>)
         => grafo = parsear_entrada_a_grafo(
                      SinLineasInvalidas(texto_conexiones)) ]_vars

\* The loop is over for a text with a line of three tokens or more, a line
\* of fewer than two, and at least one edge.
C9_Witness ==
  /\ pc = "for"
  /\ lineas = <<>>
  /\ grafo # GrafoVacio
  /\ LET ls == split(texto_conexiones, NL)
     IN /\ \E i \in 1..Len(ls) : Len(findall(strip(ls[i]))) >= 3
        /\ \E i \in 1..Len(ls) : Len(findall(strip(ls[i]))) < 2

\* C10: in the loop and at its end, the visited set is the set of the
\* nodes ever put in the queue, no node was put in it twice, every node
\* put in it is still in it or was taken from it, and the number of
\* dequeues is at most the number of nodes of the graph.
C10_BucleAcotado ==
  (pc \in {"while", "retorno", "fin"} /\ AmbosClaves) =>
    /\ visitados = Rango(encolados)
    /\ \A i, j \in 1..Len(encolados) : i # j => encolados[i] # encolados[j]
    /\ encolados = extraidos \o [i \in 1..Len(cola) |-> cola[i].nodo]
    /\ Len(extraidos) <= Cardinality(DOMAIN grafo)

\* The search has returned after as many dequeues as the graph has nodes,
\* in a graph where some node has two neighbours besides itself.
C10_Witness ==
  /\ pc = "retorno"
  /\ AmbosClaves
  /\ Cardinality(DOMAIN grafo) >= 4
  /\ Len(extraidos) = Cardinality(DOMAIN grafo)
  /\ \A a \in DOMAIN grafo : Len(grafo[a]) >= 2

====
